---- MODULE Spec2Model ----
(***************************************************************************)
(* CollectionsService (src/tonic/api/collections_api.rs): the gRPC adapter *)
(* that forwards collection-management requests to the Dispatcher.         *)
(*                                                                         *)
(* Every inbound call is an independently scheduled task.  A task runs its *)
(* handler from one await point to the next; the only await point of every *)
(* handler is the call into the Dispatcher / TableOfContent.  One action   *)
(* of the model is one such run of a handler (a poll of its future): the   *)
(* code up to the await, and the code after it.  The order of the          *)
(* statements inside a run is kept in the call's event trace.              *)
(***************************************************************************)
EXTENDS Integers, Sequences, FiniteSets

(* ------------------------------ bounds -------------------------------- *)

\* largest timeout-seconds value a request carries
MaxTimeout == 1
\* longest alias list the coordinator returns
MaxAliases == 2
\* last tick of the monotonic clock
MaxTime == 2

(* ------------------------------ values -------------------------------- *)

\* the concurrently running calls (tasks) on the one CollectionsService
Calls == {1, 2}

\* Option<T>
None == <<>>
Some(x) == <<x>>
IsSome(o) == o /= None
Get(o) == o[1]

\* Result<T, E>
Ok(v) == [ok |-> Some(v), err |-> None]
Err(e) == [ok |-> None, err |-> Some(e)]
IsOk(r) == IsSome(r.ok)

MutatingKinds == {"create", "update", "delete", "update_aliases"}
ReadKinds == {"get", "list", "list_aliases", "list_collection_aliases"}

CollectionNames == {"foo", "FOO"}
AliasNames == {"a", "b"}

\* the failures of the external collaborator (storage errors)
CoordinatorErrors ==
    {"not_found", "already_exists", "internal_failure", "timeout_exceeded", "unavailable"}

\* the messages the transport hands to the handlers.  `timeout` is the
\* message's optional u64 field, `body` its payload (the collection name, or
\* the alias actions), `wellformed` whether the payload has a valid internal
\* operation.
MutatingMessages ==
    [kind : MutatingKinds,
     timeout : {None} \cup {Some(n) : n \in 0..MaxTimeout},
     body : CollectionNames,
     wellformed : BOOLEAN]

ReadMessages ==
    [kind : {"get", "list_collection_aliases"}, timeout : {None},
     body : CollectionNames, wellformed : {TRUE}]
    \cup
    [kind : {"list", "list_aliases"}, timeout : {None},
     body : {""}, wellformed : {TRUE}]

Messages == MutatingMessages \cup ReadMessages

\* tonic::Request<T>: the envelope around the message
Request(m) == [message |-> m]
into_inner(request) == request.message

RECURSIVE SeqsUpTo(_, _)
SeqsUpTo(S, n) ==
    IF n = 0 THEN {<<>>}
    ELSE LET shorter == SeqsUpTo(S, n - 1)
         IN shorter \cup {Append(s, x) : s \in {t \in shorter : Len(t) = n - 1}, x \in S}

AliasLists == SeqsUpTo(AliasNames, MaxAliases)

\* the alias records TableOfContent::list_aliases returns
AliasRecords == [alias_name : AliasNames, collection_name : CollectionNames]
AliasRecordLists == SeqsUpTo(AliasRecords, 1)

CollectionLists == {<<>>, <<"foo">>, <<"foo", "FOO">>}
CollectionInfos == {[status |-> "green"], [status |-> "red"]}

VARIABLES
    request,   \* request[c]: Option of the envelope call c was invoked with
    pc,        \* pc[c]: "idle", "called", "awaiting", "done"
    timing,    \* timing[c]: the handler's local `timing` (Instant)
    convs,     \* convs[c]: how often call c ran try_into
    submits,   \* submits[c]: what the coordinator received from call c, in order
    reply,     \* reply[c]: Option of the coordinator's Result for call c
    outcome,   \* outcome[c]: what the caller received: [response, status]
    trace,     \* trace[c]: the events of call c, in program order
    now,       \* the monotonic clock (Instant::now)
    callAt,    \* callAt[c]: when the coordinator call of c began
    replyAt    \* replyAt[c]: when the coordinator call of c completed

vars == <<request, pc, timing, convs, submits, reply, outcome, trace, now, callAt, replyAt>>


(* --------------------- collaborators outside the file ------------------ *)

\* Variant(kind): the CollectionMetaOperations variant a request kind converts into
Variant(kind) ==
    CASE kind = "create" -> "CreateCollection"
      [] kind = "update" -> "UpdateCollection"
      [] kind = "delete" -> "DeleteCollection"
      [] kind = "update_aliases" -> "ChangeAliases"

\* TryInto<CollectionMetaOperations, Error = Status> of the four request types
try_into(operation) ==
    IF operation.wellformed
    THEN Ok([variant |-> Variant(operation.kind), body |-> operation.body])
    ELSE Err("InvalidArgument")

\* storage::content_manager::conversions::error_to_status: the fixed table
error_to_status(e) ==
    CASE e = "not_found" -> "NotFound"
      [] e = "already_exists" -> "AlreadyExists"
      [] e = "internal_failure" -> "Internal"
      [] e = "timeout_exceeded" -> "DeadlineExceeded"
      [] e = "unavailable" -> "Unavailable"

\* what the coordinator may answer to a call of each kind
Results(kind) ==
    {Err(e) : e \in CoordinatorErrors}
    \cup
    CASE kind \in MutatingKinds -> {Ok(b) : b \in BOOLEAN}
      [] kind = "list_collection_aliases" -> {Ok(l) : l \in AliasLists}
      [] kind = "list_aliases" -> {Ok(l) : l \in AliasRecordLists}
      [] kind = "list" -> {Ok(l) : l \in CollectionLists}
      [] kind = "get" -> {Ok(i) : i \in CollectionInfos}

(* ------------------------------ helpers -------------------------------- *)

\* Duration::from_secs
Duration_from_secs(n) == [secs |-> n, nanos |-> 0]

\* Instant::elapsed, read at clock value t
elapsed(instant, t) == t - instant

\* Ok(Response::new(response)) and Err(status), as the caller sees them
ReturnOk(response) == [response |-> Some(response), status |-> None]
ReturnErr(status) == [response |-> None, status |-> Some(status)]
NotReturned == [response |-> None, status |-> None]

\* mutant: an absent timeout is replaced by a default duration
wait_timeout_defaulting(operation) ==
    IF operation.timeout = None
    THEN Some(Duration_from_secs(0))
    ELSE Some(Duration_from_secs(Get(operation.timeout)))

\* mutant: the implementation for ChangeAliases forgets the field
wait_timeout_bespoke(operation) ==
    IF operation.timeout = None \/ operation.kind = "update_aliases"
    THEN None
    ELSE Some(Duration_from_secs(Get(operation.timeout)))

\* WithTimeout::wait_timeout, the same body for the four request types
wait_timeout(operation) ==
    IF operation.timeout = None
    THEN None
    ELSE Some(Duration_from_secs(Get(operation.timeout)))

\* CollectionOperationResponse::from((timing, result)), built at clock value t
CollectionOperationResponse_from(instant, result, t) ==
    [result |-> result, time |-> elapsed(instant, t)]

\* ListCollectionsResponse::from((timing, result)), built at clock value t
ListCollectionsResponse_from(instant, result, t) ==
    [collections |-> result, time |-> elapsed(instant, t)]

\* Alias -> AliasDescription (alias.into())
AliasDescription_from(alias) ==
    [alias_name |-> alias.alias_name, collection_name |-> alias.collection_name]

\* mutant: the adapter gives up once the extracted timeout has passed
await_enforcing(rep, wait, waited) ==
    IF IsSome(rep) THEN rep
    ELSE IF IsSome(wait) /\ waited >= Get(wait).secs THEN Some(Err("timeout_exceeded"))
    ELSE None

\* the value of `future.await` once the task is polled: the coordinator's
\* Result when it has replied, pending (None) otherwise
await(rep, wait, waited) == rep

(* ----------------- the handlers, one run (poll) at a time -------------- *)

\* mutant: a failed conversion is replaced by a default operation and submitted
perform_operation_enter_defaulting(req, t) ==
    LET operation == into_inner(req)
        wait == wait_timeout(operation)
        converted == try_into(operation)
        submitted == IF IsOk(converted) THEN Get(converted.ok)
                     ELSE [variant |-> Variant(operation.kind), body |-> ""]
    IN  [timing |-> t, convs |-> 1,
         submits |-> <<[operation |-> submitted, timeout |-> wait]>>,
         returned |-> None,
         trace |-> <<"unwrap", "wait_timeout", "timestamp", "convert", "coordinator_call">>]

\* perform_operation up to its await, entered at clock value t: what it
\* leaves in its locals, what it hands to the coordinator and, when it
\* returns early, what it returns
perform_operation_enter(req, t) ==
    LET operation == into_inner(req)
        wait == wait_timeout(operation)
        converted == try_into(operation)
    IN  IF IsOk(converted)
        THEN [timing |-> t, convs |-> 1,
              submits |-> <<[operation |-> Get(converted.ok), timeout |-> wait]>>,
              returned |-> None,
              trace |-> <<"unwrap", "wait_timeout", "timestamp", "convert", "coordinator_call">>]
        ELSE [timing |-> t, convs |-> 1,
              submits |-> <<>>,
              returned |-> Some(ReturnErr(Get(converted.err))),
              trace |-> <<"unwrap", "wait_timeout", "timestamp", "convert", "return_err">>]

\* mutant: every coordinator error becomes the same unclassified status
perform_operation_resume_unclassified(instant, result, t) ==
    IF IsOk(result)
    THEN [returned |-> ReturnOk(CollectionOperationResponse_from(instant, Get(result.ok), t)),
          submits |-> <<>>,
          trace |-> <<"wrap", "return_ok">>]
    ELSE [returned |-> ReturnErr("Unknown"),
          submits |-> <<>>,
          trace |-> <<"map_err", "return_err">>]

\* mutant: a failed submission is submitted once more before the error is returned
perform_operation_resume_retrying(instant, result, t) ==
    IF IsOk(result)
    THEN [returned |-> ReturnOk(CollectionOperationResponse_from(instant, Get(result.ok), t)),
          submits |-> <<>>,
          trace |-> <<"wrap", "return_ok">>]
    ELSE [returned |-> ReturnErr(error_to_status(Get(result.err))),
          submits |-> <<[operation |-> [variant |-> "retry", body |-> ""], timeout |-> None]>>,
          trace |-> <<"coordinator_call", "map_err", "return_err">>]

\* perform_operation after its await, resumed with the coordinator's result
perform_operation_resume(instant, result, t) ==
    IF IsOk(result)
    THEN [returned |-> ReturnOk(CollectionOperationResponse_from(instant, Get(result.ok), t)),
          submits |-> <<>>,
          trace |-> <<"wrap", "return_ok">>]
    ELSE [returned |-> ReturnErr(error_to_status(Get(result.err))),
          submits |-> <<>>,
          trace |-> <<"map_err", "return_err">>]

\* the closure of list_aliases that converts the coordinator's aliases
into_descriptions(aliases) ==
    [i \in 1..Len(aliases) |-> AliasDescription_from(aliases[i])]

\* list_aliases: the request is never unwrapped
list_aliases_enter(req, t) ==
    [timing |-> t, convs |-> 0, submits |-> <<>>, returned |-> None,
     trace |-> <<"timestamp", "coordinator_call">>]

list_aliases_resume(instant, result, t) ==
    IF IsOk(result)
    THEN [returned |-> ReturnOk([aliases |-> into_descriptions(Get(result.ok)),
                                 time |-> elapsed(instant, t)]),
          submits |-> <<>>,
          trace |-> <<"wrap", "return_ok">>]
    ELSE [returned |-> ReturnErr(error_to_status(Get(result.err))),
          submits |-> <<>>,
          trace |-> <<"map_err", "return_err">>]

\* list_collection_aliases: the timestamp is taken, then the request unwrapped
list_collection_aliases_enter(req, t) ==
    [timing |-> t, convs |-> 0, submits |-> <<>>, returned |-> None,
     trace |-> <<"timestamp", "unwrap", "coordinator_call">>]

\* mutant: the collection name is normalised instead of kept verbatim
alias_descriptions_normalising(aliases, collection_name) ==
    [i \in 1..Len(aliases) |->
        [alias_name |-> aliases[i],
         collection_name |-> IF collection_name = "FOO" THEN "foo" ELSE collection_name]]

\* the closure of list_collection_aliases that shapes the coordinator's aliases
alias_descriptions(aliases, collection_name) ==
    [i \in 1..Len(aliases) |->
        [alias_name |-> aliases[i], collection_name |-> collection_name]]

\* mutant: the elapsed time is read from a timer started after the await
list_collection_aliases_resume_late_timer(instant, req, result, t) ==
    LET collection_name == into_inner(req).body
    IN  IF IsOk(result)
        THEN [returned |-> ReturnOk([aliases |-> alias_descriptions(Get(result.ok), collection_name),
                                     time |-> elapsed(t, t)]),
              submits |-> <<>>,
              trace |-> <<"wrap", "return_ok">>]
        ELSE [returned |-> ReturnErr(error_to_status(Get(result.err))),
              submits |-> <<>>,
              trace |-> <<"map_err", "return_err">>]

list_collection_aliases_resume(instant, req, result, t) ==
    LET collection_name == into_inner(req).body
    IN  IF IsOk(result)
        THEN [returned |-> ReturnOk([aliases |-> alias_descriptions(Get(result.ok), collection_name),
                                     time |-> elapsed(instant, t)]),
              submits |-> <<>>,
              trace |-> <<"wrap", "return_ok">>]
        ELSE [returned |-> ReturnErr(error_to_status(Get(result.err))),
              submits |-> <<>>,
              trace |-> <<"map_err", "return_err">>]

\* list: the request is never unwrapped
list_enter(req, t) ==
    [timing |-> t, convs |-> 0, submits |-> <<>>, returned |-> None,
     trace |-> <<"timestamp", "coordinator_call">>]

\* list has one way out: whatever do_list_collections produced is wrapped
list_resume(instant, result, t) ==
    [returned |-> ReturnOk(ListCollectionsResponse_from(instant, result, t)),
     submits |-> <<>>,
     trace |-> <<"wrap", "return_ok">>]

\* get: unwraps the request and hands it to collections_common::get
get_enter(req, t) ==
    [timing |-> t, convs |-> 0, submits |-> <<>>, returned |-> None,
     trace |-> <<"unwrap", "timestamp", "coordinator_call">>]

\* collections_common::get after the coordinator's answer
get_resume(instant, result, t) ==
    IF IsOk(result)
    THEN [returned |-> ReturnOk([result |-> Get(result.ok), time |-> elapsed(instant, t)]),
          submits |-> <<>>,
          trace |-> <<"wrap", "return_ok">>]
    ELSE [returned |-> ReturnErr(error_to_status(Get(result.err))),
          submits |-> <<>>,
          trace |-> <<"map_err", "return_err">>]

(* ------------------------------ actions -------------------------------- *)

Kind(c) == into_inner(Get(request[c])).kind

Init ==
    /\ request = [c \in Calls |-> None]
    /\ pc = [c \in Calls |-> "idle"]
    /\ timing = [c \in Calls |-> 0]
    /\ convs = [c \in Calls |-> 0]
    /\ submits = [c \in Calls |-> <<>>]
    /\ reply = [c \in Calls |-> None]
    /\ outcome = [c \in Calls |-> NotReturned]
    /\ trace = [c \in Calls |-> <<>>]
    /\ now = 0
    /\ callAt = [c \in Calls |-> 0]
    /\ replyAt = [c \in Calls |-> 0]

\* the transport invokes a handler of the service with a request
Call(c) ==
    /\ pc[c] = "idle"
    /\ \E m \in Messages : request' = [request EXCEPT ![c] = Some(Request(m))]
    /\ pc' = [pc EXCEPT ![c] = "called"]
    /\ UNCHANGED <<timing, convs, submits, reply, outcome, trace, now, callAt, replyAt>>

\* the first run of call c's handler: r is what the handler did up to its await
Enter(c, r) ==
    /\ pc[c] = "called"
    /\ timing' = [timing EXCEPT ![c] = r.timing]
    /\ convs' = [convs EXCEPT ![c] = @ + r.convs]
    /\ submits' = [submits EXCEPT ![c] = @ \o r.submits]
    /\ trace' = [trace EXCEPT ![c] = @ \o r.trace]
    /\ IF r.returned = None
       THEN /\ pc' = [pc EXCEPT ![c] = "awaiting"]
            /\ callAt' = [callAt EXCEPT ![c] = now]
            /\ UNCHANGED outcome
       ELSE /\ pc' = [pc EXCEPT ![c] = "done"]
            /\ outcome' = [outcome EXCEPT ![c] = Get(r.returned)]
            /\ UNCHANGED callAt
    /\ UNCHANGED <<request, reply, now, replyAt>>

\* mutant: the service keeps the last coordinator result in a shared slot
Awaited_shared(c) ==
    IF \E d \in Calls : IsSome(reply[d])
    THEN reply[CHOOSE d \in Calls : IsSome(reply[d])]
    ELSE None

\* the coordinator call made for call c, as the awaiting task sees it
Awaited(c) ==
    await(reply[c], IF submits[c] = <<>> THEN None ELSE submits[c][Len(submits[c])].timeout,
          now - callAt[c])

\* the run of call c's handler after its await: r is what the handler did
Resume(c, r) ==
    /\ pc[c] = "awaiting"
    /\ pc' = [pc EXCEPT ![c] = "done"]
    /\ outcome' = [outcome EXCEPT ![c] = r.returned]
    /\ submits' = [submits EXCEPT ![c] = @ \o r.submits]
    /\ trace' = [trace EXCEPT ![c] = @ \o r.trace]
    /\ UNCHANGED <<request, timing, convs, reply, now, callAt, replyAt>>

perform_operation(c) ==
    \/ Enter(c, perform_operation_enter(Get(request[c]), now))
    \/ /\ pc[c] = "awaiting"
       /\ IsSome(Awaited(c))
       /\ Resume(c, perform_operation_resume(timing[c], Get(Awaited(c)), now))

create(c) ==
    /\ pc[c] \in {"called", "awaiting"}
    /\ Kind(c) = "create"
    /\ perform_operation(c)

update(c) ==
    /\ pc[c] \in {"called", "awaiting"}
    /\ Kind(c) = "update"
    /\ perform_operation(c)

delete(c) ==
    /\ pc[c] \in {"called", "awaiting"}
    /\ Kind(c) = "delete"
    /\ perform_operation(c)

update_aliases(c) ==
    /\ pc[c] \in {"called", "awaiting"}
    /\ Kind(c) = "update_aliases"
    /\ perform_operation(c)

list_aliases(c) ==
    /\ pc[c] \in {"called", "awaiting"}
    /\ Kind(c) = "list_aliases"
    /\ \/ Enter(c, list_aliases_enter(Get(request[c]), now))
       \/ /\ pc[c] = "awaiting"
          /\ IsSome(Awaited(c))
          /\ Resume(c, list_aliases_resume(timing[c], Get(Awaited(c)), now))

list_collection_aliases(c) ==
    /\ pc[c] \in {"called", "awaiting"}
    /\ Kind(c) = "list_collection_aliases"
    /\ \/ Enter(c, list_collection_aliases_enter(Get(request[c]), now))
       \/ /\ pc[c] = "awaiting"
          /\ IsSome(Awaited(c))
          /\ Resume(c, list_collection_aliases_resume(timing[c], Get(request[c]), Get(Awaited(c)), now))

list(c) ==
    /\ pc[c] \in {"called", "awaiting"}
    /\ Kind(c) = "list"
    /\ \/ Enter(c, list_enter(Get(request[c]), now))
       \/ /\ pc[c] = "awaiting"
          /\ IsSome(Awaited(c))
          /\ Resume(c, list_resume(timing[c], Get(Awaited(c)), now))

get(c) ==
    /\ pc[c] \in {"called", "awaiting"}
    /\ Kind(c) = "get"
    /\ \/ Enter(c, get_enter(Get(request[c]), now))
       \/ /\ pc[c] = "awaiting"
          /\ IsSome(Awaited(c))
          /\ Resume(c, get_resume(timing[c], Get(Awaited(c)), now))

\* the coordinator completes the call made for call c
CoordinatorReply(c) ==
    /\ pc[c] = "awaiting"
    /\ reply[c] = None
    /\ \E res \in Results(Kind(c)) : reply' = [reply EXCEPT ![c] = Some(res)]
    /\ replyAt' = [replyAt EXCEPT ![c] = now]
    /\ UNCHANGED <<request, pc, timing, convs, submits, outcome, trace, now, callAt>>

\* the monotonic clock advances
Tick ==
    /\ now < MaxTime
    /\ now' = now + 1
    /\ UNCHANGED <<request, pc, timing, convs, submits, reply, outcome, trace, callAt, replyAt>>

Handler(c) ==
    \/ create(c)
    \/ update(c)
    \/ delete(c)
    \/ update_aliases(c)
    \/ get(c)
    \/ list(c)
    \/ list_aliases(c)
    \/ list_collection_aliases(c)

\* concurrent calls on one service, all within one reading of the clock
Next ==
    \E c \in Calls :
        \/ Call(c)
        \/ Handler(c)
        \/ CoordinatorReply(c)

Spec == Init /\ [][Next]_vars

\* one call, with the clock running
TimedNext ==
    \/ Tick
    \/ Call(1)
    \/ Handler(1)
    \/ CoordinatorReply(1)

TimedSpec == Init /\ [][TimedNext]_vars

\* the runtime polls a task that can run: every handler run that stays
\* enabled is eventually taken (the coordinator is under no such obligation)
FairSpec == TimedSpec /\ WF_vars(Handler(1))

(* ------------------------------- claims -------------------------------- *)

Started(c) == pc[c] /= "idle"
Msg(c) == into_inner(Get(request[c]))
Mutating(c) == Started(c) /\ Msg(c).kind \in MutatingKinds
Entered(c) == pc[c] \in {"awaiting", "done"}
Done(c) == pc[c] = "done"
ConversionFails(c) == ~IsOk(try_into(Msg(c)))
CoordinatorFailed(c) == IsSome(reply[c]) /\ ~IsOk(Get(reply[c]))
CoordinatorSucceeded(c) == IsSome(reply[c]) /\ IsOk(Get(reply[c]))
HasResponse(c) == IsSome(outcome[c].response)
HasStatus(c) == IsSome(outcome[c].status)
Has(tr, e) == \E i \in 1..Len(tr) : tr[i] = e
Index(tr, e) == CHOOSE i \in 1..Len(tr) : tr[i] = e
Count(tr, e) == Cardinality({i \in 1..Len(tr) : tr[i] = e})

\* C1: when the conversion of a create, update, delete or update_aliases
\* request fails, the call returns the conversion error and nothing is ever
\* submitted to the coordinator for that call.
C1_ConversionFailureNeverSubmits ==
    \A c \in Calls :
        (Mutating(c) /\ ConversionFails(c)) =>
            /\ submits[c] = <<>>
            /\ ~Has(trace[c], "coordinator_call")
            /\ pc[c] /= "awaiting"
            /\ Entered(c) =>
                /\ Done(c)
                /\ outcome[c] = ReturnErr(Get(try_into(Msg(c)).err))

C1_Witness ==
    \E c \in Calls :
        /\ Mutating(c) /\ ConversionFails(c) /\ Done(c)
        /\ HasStatus(c)
        /\ IsSome(Msg(c).timeout)

\* C2: a mutating request whose conversion succeeds and which carries
\* timeout-seconds = N is submitted with a duration of exactly N seconds, and
\* one which carries no timeout is submitted with no duration.
C2_TimeoutPassedThrough ==
    \A c \in Calls :
        (Mutating(c) /\ ~ConversionFails(c) /\ Entered(c)) =>
            /\ Len(submits[c]) = 1
            /\ Msg(c).timeout = None => submits[c][1].timeout = None
            /\ \A n \in 0..MaxTimeout :
                   Msg(c).timeout = Some(n) =>
                       submits[c][1].timeout = Some([secs |-> n, nanos |-> 0])

C2_Witness ==
    \E c, d \in Calls :
        /\ Mutating(c) /\ Entered(c) /\ Msg(c).timeout = Some(MaxTimeout)
        /\ submits[c] /= <<>> /\ submits[c][1].timeout = Some([secs |-> MaxTimeout, nanos |-> 0])
        /\ Mutating(d) /\ Entered(d) /\ Msg(d).timeout = None
        /\ submits[d] /= <<>> /\ submits[d][1].timeout = None

\* C3: when the coordinator's submit fails, the mutating call returns the
\* status the fixed table gives for that error (equal errors give equal
\* statuses), produces no Response, and has submitted exactly once.
C3_CoordinatorErrorMapped ==
    /\ \A c \in Calls :
           (Mutating(c) /\ Done(c) /\ CoordinatorFailed(c)) =>
               /\ outcome[c].status = Some(error_to_status(Get(Get(reply[c]).err)))
               /\ outcome[c].response = None
               /\ Len(submits[c]) = 1
               /\ Count(trace[c], "coordinator_call") = 1
    /\ \A c, d \in Calls :
           ( /\ Mutating(c) /\ Done(c) /\ CoordinatorFailed(c)
             /\ Mutating(d) /\ Done(d) /\ CoordinatorFailed(d)
             /\ Get(reply[c]).err = Get(reply[d]).err ) =>
               outcome[c].status = outcome[d].status

C3_Witness ==
    \E c, d \in Calls :
        /\ c /= d
        /\ Mutating(c) /\ Done(c) /\ CoordinatorFailed(c)
        /\ Mutating(d) /\ Done(d) /\ CoordinatorFailed(d)
        /\ Msg(c).kind /= Msg(d).kind
        /\ Get(reply[c]).err /= Get(reply[d]).err
        /\ outcome[c].status /= outcome[d].status

\* C4: list_collection_aliases(c) returns, for the alias list L of the
\* coordinator, a list of the same length whose i-th entry pairs L[i] with
\* the collection name of the request, verbatim.
C4_AliasesKeepOrderAndCallerName ==
    \A c \in Calls :
        ( /\ Started(c) /\ Msg(c).kind = "list_collection_aliases"
          /\ Done(c) /\ CoordinatorSucceeded(c) ) =>
            /\ HasResponse(c)
            /\ LET L == Get(Get(reply[c]).ok)
                   out == Get(outcome[c].response).aliases
               IN  /\ Len(out) = Len(L)
                   /\ \A i \in 1..Len(L) :
                          /\ out[i].alias_name = L[i]
                          /\ out[i].collection_name = Msg(c).body

C4_Witness ==
    \E c \in Calls :
        /\ Started(c) /\ Msg(c).kind = "list_collection_aliases"
        /\ Done(c) /\ CoordinatorSucceeded(c)
        /\ Msg(c).body = "FOO"
        /\ Get(Get(reply[c]).ok) = <<"a", "b">>
        /\ HasResponse(c)
        /\ Len(Get(outcome[c].response).aliases) = 2

\* C5: a mutating call converts its request exactly once and submits at most
\* once, exactly once when the conversion succeeds, whatever its outcome.
C5_OneConversionOneSubmission ==
    \A c \in Calls :
        Mutating(c) =>
            /\ convs[c] <= 1
            /\ Len(submits[c]) <= 1
            /\ Entered(c) =>
                /\ convs[c] = 1
                /\ Count(trace[c], "convert") = 1
                /\ (Len(submits[c]) = 1) <=> ~ConversionFails(c)
                /\ Count(trace[c], "coordinator_call") = Len(submits[c])

C5_Witness ==
    \E c, d \in Calls :
        /\ Mutating(c) /\ Done(c) /\ CoordinatorFailed(c) /\ Len(submits[c]) = 1
        /\ Mutating(d) /\ Done(d) /\ ConversionFails(d) /\ convs[d] = 1

\* C6: every call of any of the eight operations ends in exactly one of a
\* Response or an error status, and when the coordinator call made for it
\* fails the caller receives an error status and no Response.
C6_ErrorsAlwaysSurface ==
    \A c \in Calls :
        Done(c) =>
            /\ HasResponse(c) /= HasStatus(c)
            /\ CoordinatorFailed(c) => (HasStatus(c) /\ ~HasResponse(c))

\* whether call c returned what its own request and its own reply determine
OwnOutcome(c) ==
    IF ConversionFails(c) THEN outcome[c] = ReturnErr("InvalidArgument")
    ELSE IF IsOk(Get(reply[c]))
         THEN /\ HasResponse(c) /\ ~HasStatus(c)
              /\ Get(outcome[c].response).result = Get(Get(reply[c]).ok)
         ELSE outcome[c] = ReturnErr(error_to_status(Get(Get(reply[c]).err)))

\* C7: under every interleaving of concurrent calls, a mutating call submits
\* its own operation with its own timeout, returns what its own request and
\* the coordinator's reply to its own submission determine, and can complete
\* as soon as that reply is there, whatever the other calls did.
C7_CallsAreIndependent ==
    \A c \in Calls :
        Mutating(c) =>
            /\ (Entered(c) /\ ~ConversionFails(c)) =>
                   submits[c] = <<[operation |-> [variant |-> Variant(Msg(c).kind),
                                                  body |-> Msg(c).body],
                                   timeout |-> wait_timeout(Msg(c))]>>
            /\ (Done(c) /\ ~ConversionFails(c)) => IsSome(reply[c])
            /\ Done(c) => OwnOutcome(c)
            /\ (pc[c] = "called" \/ (pc[c] = "awaiting" /\ IsSome(reply[c]))) =>
                   ENABLED Handler(c)

C7_Witness ==
    /\ Mutating(1) /\ Mutating(2)
    /\ Msg(1).kind = "create" /\ Msg(2).kind = "create"
    /\ Msg(1).body /= Msg(2).body
    /\ Msg(1).timeout /= Msg(2).timeout
    /\ Done(1) /\ CoordinatorFailed(1) /\ HasStatus(1)
    /\ Done(2) /\ CoordinatorSucceeded(2) /\ HasResponse(2)

\* C8 as stated: in every operation that reports an elapsed time the start
\* timestamp is taken after the request envelope is unwrapped and before the
\* coordinator call, the end after the call completes, so the elapsed time
\* is >= 0 and >= the duration of the coordinator call.
C8_TimestampAfterUnwrap ==
    \A c \in Calls :
        (Done(c) /\ HasResponse(c)) =>
            /\ Has(trace[c], "unwrap") =>
                   Index(trace[c], "unwrap") < Index(trace[c], "timestamp")
            /\ Index(trace[c], "timestamp") < Index(trace[c], "coordinator_call")
            /\ Get(outcome[c].response).time >= 0
            /\ Get(outcome[c].response).time >= replyAt[c] - callAt[c]

\* C8 as amended: in every operation that reports an elapsed time the start
\* timestamp is taken before the coordinator call begins (in
\* list_collection_aliases before the envelope is unwrapped), the end after
\* the call completes, so the elapsed time is >= 0 and >= the duration of
\* the coordinator call.
C8_ElapsedCoversCoordinatorCall ==
    \A c \in Calls :
        (Done(c) /\ HasResponse(c)) =>
            /\ Index(trace[c], "timestamp") < Index(trace[c], "coordinator_call")
            /\ (Msg(c).kind = "list_collection_aliases") =>
                   Index(trace[c], "timestamp") < Index(trace[c], "unwrap")
            /\ (Msg(c).kind \in MutatingKinds \cup {"get"}) =>
                   Index(trace[c], "unwrap") < Index(trace[c], "timestamp")
            /\ timing[c] <= callAt[c]
            /\ callAt[c] <= replyAt[c]
            /\ Get(outcome[c].response).time >= 0
            /\ Get(outcome[c].response).time >= replyAt[c] - callAt[c]

C8_Witness ==
    \E c \in Calls :
        /\ Done(c) /\ HasResponse(c)
        /\ Msg(c).kind = "list_collection_aliases"
        /\ replyAt[c] - callAt[c] >= 1
        /\ Get(outcome[c].response).time > replyAt[c] - callAt[c]

\* C9: create, update, delete and update_aliases run the same step sequence:
\* two calls of these kinds with the same timeout, the same conversion
\* outcome and the same coordinator reply produce the same events and the
\* same result, and differ only in the operation variant they submit.
C9_MutatingHandlersUniform ==
    \A c, d \in Calls :
        ( /\ Mutating(c) /\ Mutating(d) /\ Done(c) /\ Done(d)
          /\ Msg(c).timeout = Msg(d).timeout
          /\ Msg(c).wellformed = Msg(d).wellformed
          /\ reply[c] = reply[d] ) =>
            /\ trace[c] = trace[d]
            /\ outcome[c] = outcome[d]
            /\ Len(submits[c]) = Len(submits[d])
            /\ \A i \in 1..Len(submits[c]) :
                   /\ submits[c][i].timeout = submits[d][i].timeout
                   /\ submits[c][i].operation.variant = Variant(Msg(c).kind)
                   /\ submits[d][i].operation.variant = Variant(Msg(d).kind)

C9_Witness ==
    /\ Mutating(1) /\ Mutating(2) /\ Done(1) /\ Done(2)
    /\ Msg(1).kind = "delete" /\ Msg(2).kind = "update_aliases"
    /\ Msg(1).timeout = Some(MaxTimeout) /\ Msg(2).timeout = Some(MaxTimeout)
    /\ CoordinatorSucceeded(1) /\ reply[1] = reply[2]
    /\ submits[1][1].operation.variant /= submits[2][1].operation.variant

\* C10: the adapter does not enforce the timeout it extracts: while the
\* coordinator has not replied a submitted mutating call stays pending,
\* whatever its timeout and however much time passes, and once the
\* coordinator has replied the call eventually returns.
C10_CompletesWithCoordinatorOnly ==
    /\ [][\A c \in Calls :
              (Mutating(c) /\ pc[c] = "awaiting" /\ reply[c] = None) =>
                  (pc'[c] = "awaiting" /\ outcome'[c] = NotReturned)]_vars
    /\ \A c \in Calls :
           (pc[c] = "awaiting" /\ IsSome(reply[c])) ~> (pc[c] = "done")

C10_Witness ==
    \E c \in Calls :
        /\ Mutating(c) /\ pc[c] = "awaiting" /\ reply[c] = None
        /\ IsSome(Msg(c).timeout)
        /\ now - callAt[c] > Get(Msg(c).timeout)

====
